---- MODULE Spec2Model ----
(***************************************************************************)
(* A model of the OpenLLM client library (src/npm/src).                    *)
(*                                                                         *)
(* Spec: one call on an OpenLLMClient (client.ts), either inferenceStream  *)
(* or one of the methods that go through request, from the call to the     *)
(* settlement of its promise.  SpecConcurrent: two invocations of          *)
(* inferenceStream in progress on one client.  SpecRegistry: the           *)
(* operations of ModelRegistryImpl (registry.ts) and the router of the     *)
(* plugin (index.ts).  SpecScan: a find in progress while the registry is  *)
(* changed.                                                                *)
(*                                                                         *)
(* The byte source is a sequence of bytes cut into chunks at arbitrary     *)
(* places.  A byte is a one-character string, except the two bytes of the  *)
(* one multi-byte character of the alphabet.  Text is a sequence of        *)
(* characters.  The JSON text of a token on the wire is a compact stand-in *)
(* for the engine's encoding, and JSON.parse is its partial inverse: it    *)
(* throws on every other text.                                             *)
(*                                                                         *)
(* The caller's onToken and onComplete may throw (the set of throwing      *)
(* callbacks is fixed per invocation); onError returns normally.           *)
(*                                                                         *)
(* log and cutInside are history variables: log records, in program order, *)
(* every callback invocation and console.error call, each successful       *)
(* JSON.parse ("decoded"), and the two events of the environment the       *)
(* claims speak of (the timeout elapsing, the byte source closing).        *)
(***************************************************************************)
EXTENDS Integers, Sequences, FiniteSets, TLC

VARIABLES
    pc,               \* where the invocation stands
    timerArmed,       \* the setTimeout of line 139 is pending
    aborted,          \* controller.abort() has run
    deadline,         \* phase in which the timeout duration elapsed, or "none"
    data,             \* the InferenceRequest of the call
    throwing,         \* the callbacks of options that throw when invoked
    status,           \* response.status
    wire,             \* the bytes the engine sends on the response body
    pos,              \* how many bytes of wire the reader has delivered
    decoderPending,   \* bytes of an incomplete character kept by the TextDecoder
    buffer,           \* let buffer
    accumulatedText,  \* let accumulatedText
    tokenCount,       \* let tokenCount
    modelId,          \* const modelId
    log,              \* history: what the caller and the console observed, in order
    cutInside,        \* history: some chunk ended inside a line or a character
    rejection,        \* the error the returned promise rejects with, or NoError
    method,           \* the client method that was called, or "none"
    fetches,          \* how many times the call has invoked fetch
    body,             \* the text of the body of a response that is not ok
    cancelRequested,  \* phase in which the caller gave up the stream, or "none"
    streams,          \* two invocations of inferenceStream on one client
    entries,          \* ModelRegistryImpl.entries, in the Map's insertion order
    ret,              \* what the last registry or router operation returned or threw
    scan              \* a find whose list() has returned and whose filter has not

clientVars == <<pc, timerArmed, aborted, deadline, data, throwing, status, wire,
                pos, decoderPending, buffer, accumulatedText, tokenCount,
                modelId, log, cutInside, rejection, method, fetches, body,
                cancelRequested>>
otherVars == <<streams, entries, ret, scan>>
vars == <<clientVars, otherVars,
                   cancelRequested>>

\* ------------------------------------------------------------------ bounds
MaxLines == 3
MaxWire == 26

\* ------------------------------------------------------- bytes and text
NL == "\n"
LeadByte == "<C3>"
ContByte == "<A9>"
EAcute == "U+00E9"
Replacement == "U+FFFD"

RECURSIVE Utf8(_)
Utf8(text) ==
    IF text = <<>> THEN <<>>
    ELSE (IF Head(text) = EAcute THEN <<LeadByte, ContByte>> ELSE <<Head(text)>>)
         \o Utf8(Tail(text))

\* TextDecoder.decode(value, { stream: true }): an incomplete character at
\* the end of a chunk is kept for the next call.
RECURSIVE DecodeFrom(_, _, _)
DecodeFrom(pend, bytes, out) ==
    IF bytes = <<>> THEN [chars |-> out, pending |-> pend]
    ELSE LET b == Head(bytes) IN
         IF pend # <<>>
         THEN IF b = ContByte
              THEN DecodeFrom(<<>>, Tail(bytes), Append(out, EAcute))
              ELSE DecodeFrom(<<>>, bytes, Append(out, Replacement))
         ELSE IF b = LeadByte THEN DecodeFrom(<<b>>, Tail(bytes), out)
              ELSE IF b = ContByte
                   THEN DecodeFrom(<<>>, Tail(bytes), Append(out, Replacement))
                   ELSE DecodeFrom(<<>>, Tail(bytes), Append(out, b))

\* decode(value) without the stream option: an incomplete character at the
\* end of the chunk is replaced and nothing is kept.
DecodeNoStream(pend, bytes) ==
    LET r == DecodeFrom(<<>>, bytes, <<>>) IN
    [chars |-> IF r.pending = <<>> THEN r.chars ELSE Append(r.chars, Replacement),
     pending |-> <<>>]

Decode(pend, bytes) == DecodeFrom(pend, bytes, <<>>)

\* String.prototype.split("\n")
RECURSIVE Split(_)
Split(s) ==
    IF \A i \in 1..Len(s) : s[i] # NL THEN <<s>>
    ELSE LET i == CHOOSE k \in 1..Len(s) : s[k] = NL /\ \A j \in 1..(k-1) : s[j] # NL
         IN <<SubSeq(s, 1, i - 1)>> \o Split(SubSeq(s, i + 1, Len(s)))

IsSpace(c) == c \in {" ", "\t", "\r"}

\* String.prototype.trim()
RECURSIVE TrimStart(_)
TrimStart(s) == IF s # <<>> /\ IsSpace(Head(s)) THEN TrimStart(Tail(s)) ELSE s

RECURSIVE TrimEnd(_)
TrimEnd(s) ==
    IF s # <<>> /\ IsSpace(s[Len(s)]) THEN TrimEnd(SubSeq(s, 1, Len(s) - 1)) ELSE s

Trim(s) == TrimEnd(TrimStart(s))

\* String.prototype.startsWith
StartsWith(s, p) == Len(s) >= Len(p) /\ SubSeq(s, 1, Len(p)) = p

\* String.prototype.slice(n)
Slice(s, n) == SubSeq(s, n + 1, Len(s))

EventMarker == <<"e", "v", "e", "n", "t", ":", " ", "t", "o", "k", "e", "n">>
DataMarker == <<"d", "a", "t", "a", ":", " ">>

\* ------------------------------------------------------------ tokens
TokE == [token |-> <<EAcute>>, token_id |-> 0, complete |-> FALSE]
TokBang == [token |-> <<"!">>, token_id |-> 1, complete |-> TRUE]
TokenUniverse == {TokE, TokBang}

Digit(n) == IF n = 0 THEN "0" ELSE "1"

\* the engine's text for a token (stand-in for its JSON encoding)
EncodeToken(tok) ==
    <<"{">> \o tok.token
           \o <<Digit(tok.token_id), IF tok.complete THEN "t" ELSE "f", "}">>

\* JSON.parse(data): the token whose text is data, or a SyntaxError
JSONParse(text) ==
    IF \E tok \in TokenUniverse : EncodeToken(tok) = Trim(text)
    THEN [ok |-> TRUE,
          value |-> CHOOSE tok \in TokenUniverse : EncodeToken(tok) = Trim(text)]
    ELSE [ok |-> FALSE, value |-> TokE]

\* ------------------------------------------------------------ the wire
BadPayload == <<"{">>
LineTexts ==
    { EventMarker, <<>>, DataMarker, DataMarker \o BadPayload }
    \cup { DataMarker \o EncodeToken(tok) : tok \in TokenUniverse }

RECURSIVE TextsOf(_)
TextsOf(n) ==
    IF n = 0 THEN {<<>>}
    ELSE {<<>>} \cup { l \o <<NL>> \o t : l \in LineTexts, t \in TextsOf(n - 1) }

Wires == { w \in { Utf8(t) : t \in TextsOf(MaxLines) } : Len(w) <= MaxWire }

\* ------------------------------------------------------------ errors
NoError == [name |-> "none", message |-> <<>>, code |-> "none", statusCode |-> 0]

PlainError(name, message) ==
    [name |-> name, message |-> message, code |-> "none", statusCode |-> 0]

\* The message of an error that is not made from a response body is kept as
\* the pieces of its template.
AbortError == PlainError("AbortError", <<"This operation was aborted">>)
NetworkError == PlainError("TypeError", <<"fetch failed">>)
NoBodyError == PlainError("Error", <<"No response body">>)
TimeoutError == PlainError("Error", <<"Stream timeout after ", "timeout", "ms">>)
RequestTimeoutError ==
    PlainError("Error", <<"Request timeout after ", "timeout", "ms">>)
SyntaxError == PlainError("SyntaxError", <<"Unexpected token in JSON">>)

Statuses == {404, 412, 500}

\* The body of a response that is not ok, as text
BodyNotFound ==
    <<"M", "o", "d", "e", "l", " ", "'", "m", "1", "'", " ", "n", "o", "t",
      " ", "f", "o", "u", "n", "d">>
BodyNotLoaded ==
    <<"M", "o", "d", "e", "l", " ", "'", "m", "1", "'", " ", "i", "s", " ",
      "n", "o", "t", " ", "l", "o", "a", "d", "e", "d">>
BodyEmptyId ==
    <<"M", "o", "d", "e", "l", " ", "'", "'", " ", "n", "o", "t", " ", "f",
      "o", "u", "n", "d">>
BodyLowerCase ==
    <<"m", "o", "d", "e", "l", " ", "'", "m", "1", "'", " ", "n", "o", "t",
      " ", "f", "o", "u", "n", "d">>
BodyOther ==
    <<"i", "n", "t", "e", "r", "n", "a", "l", " ", "e", "r", "r", "o", "r">>
Bodies == {BodyNotFound, BodyNotLoaded, BodyEmptyId, BodyLowerCase, BodyOther}

Quote == "'"
ModelRefPrefix == <<"M", "o", "d", "e", "l", " ", "'">>

\* The regular expression matches at index i: the literal prefix, then the
\* longest run of characters other than a quote, which must not be empty,
\* then a quote.
MatchesAt(message, i) ==
    LET after == i + Len(ModelRefPrefix) IN
      /\ after <= Len(message)
      /\ SubSeq(message, i, after - 1) = ModelRefPrefix
      /\ message[after] # Quote
      /\ \E j \in (after + 1)..Len(message) : message[j] = Quote

\* message.match(/Model '([^']+)'/): the search tries every index
MatchesModelRef(message) ==
    \E i \in 1..Len(message) : MatchesAt(message, i)

\* Variant: the status is not looked at
createError_StatusIgnored(st, message) ==
    IF MatchesModelRef(message)
    THEN [name |-> "ModelNotFoundError", message |-> message,
          code |-> "MODEL_NOT_FOUND", statusCode |-> st]
    ELSE [name |-> "OpenLLMError", message |-> message,
          code |-> "API_ERROR", statusCode |-> st]

createError(st, message) ==
    IF st = 404 /\ MatchesModelRef(message)
    THEN [name |-> "ModelNotFoundError", message |-> message,
          code |-> "MODEL_NOT_FOUND", statusCode |-> st]
    ELSE IF st = 412 /\ MatchesModelRef(message)
    THEN [name |-> "ModelNotLoadedError", message |-> message,
          code |-> "MODEL_NOT_LOADED", statusCode |-> st]
    ELSE [name |-> "OpenLLMError", message |-> message,
          code |-> "API_ERROR", statusCode |-> st]

\* ------------------------------------------------------ observed events
EvDecoded(tok) == [ev |-> "decoded", token |-> tok]
EvOnToken(tok, text, count) ==
    [ev |-> "onToken", token |-> tok, text |-> text, count |-> count]
EvOnComplete(response) == [ev |-> "onComplete", response |-> response]
EvOnError(error) == [ev |-> "onError", error |-> error]
EvConsoleError(payload) == [ev |-> "console.error", data |-> payload]
EvTimeout(phase) == [ev |-> "timeout elapsed", phase |-> phase]
EvDone == [ev |-> "done"]
EvCancel(phase) == [ev |-> "cancel requested", phase |-> phase]

\* ------------------------------------------------- the body of the loop
\* Variant: tokenCount++ placed after the callbacks
DeliverToken_CountAfterCallbacks(st, payload, tok) ==
    LET text == st.accumulatedText \o tok.token
        st1 == [st EXCEPT !.accumulatedText = text, !.tokenCount = @ + 1,
                          !.log = Append(@, EvOnToken(tok, text, st.tokenCount))]
        response == [model_id |-> st.modelId, text |-> text,
                     tokens_generated |-> st.tokenCount, finish_reason |-> "stop"]
    IN  IF "onToken" \in st.throwing
        THEN [st1 EXCEPT !.log = Append(@, EvConsoleError(payload))]
        ELSE IF ~tok.complete THEN st1
        ELSE IF "onComplete" \in st.throwing
        THEN [st1 EXCEPT !.log = @ \o <<EvOnComplete(response),
                                        EvConsoleError(payload)>>]
        ELSE [st1 EXCEPT !.log = Append(@, EvOnComplete(response))]

\* Variant: the completion token's fragment is left out of the result, and
\* the model identifier is read from the shadowing data of line 186
DeliverToken_ResultBeforeAccumulate(st, payload, tok) ==
    LET text == st.accumulatedText \o tok.token
        count == st.tokenCount + 1
        st1 == [st EXCEPT !.accumulatedText = text, !.tokenCount = count,
                          !.log = Append(@, EvOnToken(tok, text, count))]
        response == [model_id |-> "undefined", text |-> st.accumulatedText,
                     tokens_generated |-> count, finish_reason |-> "stop"]
    IN  IF "onToken" \in st.throwing
        THEN [st1 EXCEPT !.log = Append(@, EvConsoleError(payload))]
        ELSE IF ~tok.complete THEN st1
        ELSE IF "onComplete" \in st.throwing
        THEN [st1 EXCEPT !.log = @ \o <<EvOnComplete(response),
                                        EvConsoleError(payload)>>]
        ELSE [st1 EXCEPT !.log = Append(@, EvOnComplete(response))]

\* Variant: the callbacks are invoked before the token is accumulated and
\* counted
DeliverToken_CallbackBeforeAccumulate(st, payload, tok) ==
    LET text == st.accumulatedText \o tok.token
        count == st.tokenCount + 1
        called == [st EXCEPT !.log = Append(@, EvOnToken(tok, text, count))]
        response == [model_id |-> st.modelId, text |-> text,
                     tokens_generated |-> count, finish_reason |-> "stop"]
        kept == [accumulatedText |-> text, tokenCount |-> count]
    IN  IF "onToken" \in st.throwing
        THEN [called EXCEPT !.log = Append(@, EvConsoleError(payload))]
        ELSE IF ~tok.complete
        THEN [called EXCEPT !.accumulatedText = text, !.tokenCount = count]
        ELSE IF "onComplete" \in st.throwing
        THEN [called EXCEPT !.log = @ \o <<EvOnComplete(response),
                                           EvConsoleError(payload)>>]
        ELSE [called EXCEPT !.accumulatedText = text, !.tokenCount = count,
                            !.log = Append(@, EvOnComplete(response))]

\* Lines 190-204: the token is accumulated and counted, then delivered; an
\* exception of a callback is caught by the handler of the parse failure.
DeliverToken(st, payload, tok) ==
    LET text == st.accumulatedText \o tok.token
        count == st.tokenCount + 1
        st1 == [st EXCEPT !.accumulatedText = text, !.tokenCount = count,
                          !.log = Append(@, EvOnToken(tok, text, count))]
        response == [model_id |-> st.modelId, text |-> text,
                     tokens_generated |-> count, finish_reason |-> "stop"]
    IN  IF "onToken" \in st.throwing
        THEN [st1 EXCEPT !.log = Append(@, EvConsoleError(payload))]
        ELSE IF ~tok.complete THEN st1
        ELSE IF "onComplete" \in st.throwing
        THEN [st1 EXCEPT !.log = @ \o <<EvOnComplete(response),
                                        EvConsoleError(payload)>>]
        ELSE [st1 EXCEPT !.log = Append(@, EvOnComplete(response))]

\* Variant: a parse failure is also reported to onError
HandleLine_ParseFailureToOnError(st, line) ==
    LET t == Trim(line) IN
    IF StartsWith(t, EventMarker) THEN st
    ELSE IF ~StartsWith(t, DataMarker) THEN st
    ELSE LET payload == Slice(t, Len(DataMarker))
             parsed == JSONParse(payload)
         IN  IF payload = <<>> THEN st
             ELSE IF ~parsed.ok
             THEN [st EXCEPT !.log = @ \o <<EvConsoleError(payload),
                                            EvOnError(SyntaxError)>>]
             ELSE DeliverToken([st EXCEPT !.log = Append(@, EvDecoded(parsed.value))],
                               payload, parsed.value)

\* Lines 182-206: one element of lines
HandleLine(st, line) ==
    LET t == Trim(line) IN
    IF StartsWith(t, EventMarker) THEN st
    ELSE IF ~StartsWith(t, DataMarker) THEN st
    ELSE LET payload == Slice(t, Len(DataMarker))
             parsed == JSONParse(payload)
         IN  IF payload = <<>> THEN st
             ELSE IF ~parsed.ok
             THEN [st EXCEPT !.log = Append(@, EvConsoleError(payload))]
             ELSE DeliverToken([st EXCEPT !.log = Append(@, EvDecoded(parsed.value))],
                               payload, parsed.value)

\* Variant: every line of the chunk is decoded before any token is delivered
IsDecoded(e) == e.ev = "decoded"
IsNotDecoded(e) == e.ev # "decoded"
RECURSIVE HandleLinesInOrder(_, _)
HandleLinesInOrder(st, lines) ==
    IF lines = <<>> THEN st
    ELSE HandleLinesInOrder(HandleLine(st, Head(lines)), Tail(lines))

HandleLines_DecodeAhead(st, lines) ==
    LET r == HandleLinesInOrder(st, lines)
        added == SubSeq(r.log, Len(st.log) + 1, Len(r.log))
    IN  [r EXCEPT !.log = st.log \o SelectSeq(added, IsDecoded)
                                \o SelectSeq(added, IsNotDecoded)]

\* Lines 181-207: for (const line of lines)
RECURSIVE HandleLines(_, _)
HandleLines(st, lines) ==
    IF lines = <<>> THEN st
    ELSE HandleLines(HandleLine(st, Head(lines)), Tail(lines))

\* Variant: the last element of the split is handled as a line too
OnChunk_FragmentParsed(st, value) ==
    LET d == Decode(st.decoderPending, value)
        lines == Split(st.buffer \o d.chars)
        st1 == [st EXCEPT !.decoderPending = d.pending, !.buffer = <<>>]
    IN  HandleLines(st1, lines)

\* Lines 177-207: one chunk read from the body
OnChunk(st, value) ==
    LET d == Decode(st.decoderPending, value)
        lines == Split(st.buffer \o d.chars)
        st1 == [st EXCEPT !.decoderPending = d.pending,
                          !.buffer = lines[Len(lines)]]
    IN  HandleLines(st1, SubSeq(lines, 1, Len(lines) - 1))

Locals ==
    [decoderPending |-> decoderPending, buffer |-> buffer,
     accumulatedText |-> accumulatedText, tokenCount |-> tokenCount, log |-> log,
     modelId |-> modelId, throwing |-> throwing]

\* Variant: the catch block without the AbortError case
CatchBlock_AbortErrorPassedOn(error) ==
    [events |-> <<EvOnError(error)>>, rejection |-> error]

\* Variant: the catch block throws a new error that wraps the one it reports
CatchBlock_WrappedError(error) ==
    IF error.name = "AbortError"
    THEN [events |-> <<EvOnError(TimeoutError)>>,
          rejection |-> PlainError("Error", <<"Stream failed: ", TimeoutError.message>>)]
    ELSE [events |-> <<EvOnError(error)>>,
          rejection |-> PlainError("Error", <<"Stream failed: ", error.message>>)]

\* Lines 209-222: the catch block, as the events it adds and the rejection
CatchBlock(error) ==
    IF error.name = "AbortError"
    THEN [events |-> <<EvOnError(TimeoutError)>>, rejection |-> TimeoutError]
    ELSE [events |-> <<EvOnError(error)>>, rejection |-> error]

\* Lines 53-62: the catch block of request, as the error it throws
RequestCatch(error) ==
    IF error.name = "AbortError" THEN RequestTimeoutError ELSE error

\* ------------------------------------------------------------- actions
ModelIds == {"m1"}
ThrowingSets == {{}, {"onToken"}, {"onComplete"}}
NoRequest == [model_id |-> "none", prompt |-> "none"]

NoStreams == <<>>
NoReturn == [op |-> "none"]
NoScan == [active |-> FALSE]

\* The methods that go through OpenLLMClient.request
RequestMethods ==
    {"health", "listModels", "registerModel", "loadModel", "unloadModel",
     "inference"}

Streaming == method = "inferenceStream"
Requesting == method \in RequestMethods

\* No call has been made on the client
IdleClient ==
    /\ pc = "idle"
    /\ timerArmed = FALSE
    /\ aborted = FALSE
    /\ deadline = "none"
    /\ data = NoRequest
    /\ throwing = {}
    /\ status = 0
    /\ wire = <<>>
    /\ pos = 0
    /\ decoderPending = <<>>
    /\ buffer = <<>>
    /\ accumulatedText = <<>>
    /\ tokenCount = 0
    /\ modelId = "none"
    /\ log = <<>>
    /\ cutInside = FALSE
    /\ rejection = NoError
    /\ method = "none"
    /\ fetches = 0
    /\ body = <<>>
    /\ cancelRequested = "none"

Init ==
    /\ IdleClient
    /\ streams = NoStreams
    /\ entries = <<>>
    /\ ret = NoReturn
    /\ scan = NoScan

\* Lines 134-149: the call arms the timer and issues the request
Call ==
    /\ pc = "idle"
    /\ \E m \in ModelIds : data' = [model_id |-> m, prompt |-> "hello"]
    /\ \E t \in ThrowingSets : throwing' = t
    /\ timerArmed' = TRUE
    /\ method' = "inferenceStream"
    /\ fetches' = fetches + 1
    /\ pc' = "connecting"
    /\ UNCHANGED <<aborted, deadline, status, wire, pos, decoderPending, buffer,
                   accumulatedText, tokenCount, modelId, log, rejection,
                   cutInside,
                   body, otherVars,
                   cancelRequested>>

\* The configured timeout elapses; the callback of line 139 runs only if the
\* timer has not been cleared.
TimeoutElapses ==
    /\ pc \in {"connecting", "errorBody", "reading", "jsonBody"}
    /\ deadline = "none"
    /\ deadline' = pc
    /\ aborted' = timerArmed
    /\ timerArmed' = FALSE
    /\ log' = Append(log, EvTimeout(pc))
    /\ UNCHANGED <<pc, data, throwing, status, wire, pos, decoderPending, buffer,
                   accumulatedText, tokenCount, modelId, rejection,
                   cutInside,
                   method, fetches, body, otherVars,
                   cancelRequested>>

\* The abort signal rejects the pending fetch or read with an AbortError
Aborted ==
    /\ Streaming
    /\ pc \in {"connecting", "reading"}
    /\ aborted
    /\ LET c == CatchBlock(AbortError) IN
         /\ log' = log \o c.events
         /\ rejection' = c.rejection
    /\ pc' = "rejected"
    /\ UNCHANGED <<timerArmed, aborted, deadline, data, throwing, status, wire,
                   pos, decoderPending, buffer, accumulatedText, tokenCount,
                   modelId,
                   cutInside,
                   method, fetches, body, otherVars,
                   cancelRequested>>

\* Variant: a rejected fetch is issued again, once
FetchRejects_Retry ==
    /\ Streaming
    /\ pc = "connecting"
    /\ ~aborted
    /\ IF fetches < 2
       THEN /\ fetches' = fetches + 1
            /\ UNCHANGED <<pc, timerArmed, log, rejection>>
       ELSE /\ timerArmed' = FALSE
            /\ log' = Append(log, EvOnError(NetworkError))
            /\ rejection' = NetworkError
            /\ pc' = "rejected"
            /\ UNCHANGED fetches
    /\ UNCHANGED <<aborted, deadline, data, throwing, status, wire, pos,
                   decoderPending, buffer, accumulatedText, tokenCount, modelId,
                   cutInside, method, body, otherVars,
                   cancelRequested>>

\* fetch rejects (the engine cannot be reached)
FetchRejects ==
    /\ Streaming
    /\ pc = "connecting"
    /\ ~aborted
    /\ timerArmed' = FALSE
    /\ LET c == CatchBlock(NetworkError) IN
         /\ log' = log \o c.events
         /\ rejection' = c.rejection
    /\ pc' = "rejected"
    /\ UNCHANGED <<aborted, deadline, data, throwing, status, wire, pos,
                   decoderPending, buffer, accumulatedText, tokenCount, modelId,
                   cutInside,
                   method, fetches, body, otherVars,
                   cancelRequested>>

\* Lines 151-154: a response that is not ok; its body is awaited
FetchNotOk ==
    /\ Streaming
    /\ pc = "connecting"
    /\ ~aborted
    /\ \E s \in Statuses : status' = s
    /\ \E text \in Bodies : body' = text
    /\ timerArmed' = FALSE
    /\ pc' = "errorBody"
    /\ UNCHANGED <<aborted, deadline, data, throwing, wire, pos, decoderPending,
                   buffer, accumulatedText, tokenCount, modelId, log, rejection,
                   cutInside,
                   method, fetches, otherVars,
                   cancelRequested>>

\* Lines 154-158, then 209-221: the error is reported, thrown and caught
ErrorBodyRead ==
    /\ Streaming
    /\ pc = "errorBody"
    /\ LET errorText == body
           error == createError(status, errorText)
           c == CatchBlock(error)
       IN  /\ log' = Append(log, EvOnError(error)) \o c.events
           /\ rejection' = c.rejection
    /\ pc' = "rejected"
    /\ UNCHANGED <<timerArmed, aborted, deadline, data, throwing, status, wire,
                   pos, decoderPending, buffer, accumulatedText, tokenCount,
                   modelId,
                   cutInside,
                   method, fetches, body, otherVars,
                   cancelRequested>>

\* response.text() rejects
ErrorBodyFails ==
    /\ Streaming
    /\ pc = "errorBody"
    /\ LET c == CatchBlock(NetworkError) IN
         /\ log' = log \o c.events
         /\ rejection' = c.rejection
    /\ pc' = "rejected"
    /\ UNCHANGED <<timerArmed, aborted, deadline, data, throwing, status, wire,
                   pos, decoderPending, buffer, accumulatedText, tokenCount,
                   modelId,
                   cutInside,
                   method, fetches, body, otherVars,
                   cancelRequested>>

\* Lines 151, 160-165, then 209-221: an ok response without a body
FetchNoBody ==
    /\ Streaming
    /\ pc = "connecting"
    /\ ~aborted
    /\ status' = 200
    /\ timerArmed' = FALSE
    /\ LET c == CatchBlock(NoBodyError) IN
         /\ log' = Append(log, EvOnError(NoBodyError)) \o c.events
         /\ rejection' = c.rejection
    /\ pc' = "rejected"
    /\ UNCHANGED <<aborted, deadline, data, throwing, wire, pos, decoderPending,
                   buffer, accumulatedText, tokenCount, modelId,
                   cutInside,
                   method, fetches, body, otherVars,
                   cancelRequested>>

\* Lines 151, 160-171: an ok response with a body; the locals are set
FetchOk ==
    /\ Streaming
    /\ pc = "connecting"
    /\ ~aborted
    /\ status' = 200
    /\ timerArmed' = FALSE
    /\ \E w \in Wires : wire' = w
    /\ pos' = 0
    /\ decoderPending' = <<>>
    /\ buffer' = <<>>
    /\ accumulatedText' = <<>>
    /\ tokenCount' = 0
    /\ modelId' = data.model_id
    /\ pc' = "reading"
    /\ UNCHANGED <<aborted, deadline, data, throwing, log, rejection,
                   cutInside,
                   method, fetches, body, otherVars,
                   cancelRequested>>

\* Lines 174-207: reader.read() yields the next chunk, of any size
ReadChunk ==
    /\ pc = "reading"
    /\ ~aborted
    /\ \E n \in 1..(Len(wire) - pos) :
         LET st == OnChunk(Locals, SubSeq(wire, pos + 1, pos + n)) IN
           /\ pos' = pos + n
           /\ decoderPending' = st.decoderPending
           /\ buffer' = st.buffer
           /\ accumulatedText' = st.accumulatedText
           /\ tokenCount' = st.tokenCount
           /\ log' = st.log
           /\ cutInside' = (cutInside \/ st.buffer # <<>> \/ st.decoderPending # <<>>)
    /\ UNCHANGED <<pc, timerArmed, aborted, deadline, data, throwing, status,
                   wire, modelId, rejection,
                   method, fetches, body, otherVars,
                   cancelRequested>>

\* Lines 174-175: the byte source closes; the loop is left and the function returns
ReadDone ==
    /\ pc = "reading"
    /\ ~aborted
    /\ log' = Append(log, EvDone)
    /\ pc' = "resolved"
    /\ UNCHANGED <<timerArmed, aborted, deadline, data, throwing, status, wire,
                   pos, decoderPending, buffer, accumulatedText, tokenCount,
                   modelId, rejection,
                   cutInside,
                   method, fetches, body, otherVars,
                   cancelRequested>>

\* reader.read() rejects (the connection breaks)
ReadFails ==
    /\ pc = "reading"
    /\ ~aborted
    /\ LET c == CatchBlock(NetworkError) IN
         /\ log' = log \o c.events
         /\ rejection' = c.rejection
    /\ pc' = "rejected"
    /\ UNCHANGED <<timerArmed, aborted, deadline, data, throwing, status, wire,
                   pos, decoderPending, buffer, accumulatedText, tokenCount,
                   modelId,
                   cutInside,
                   method, fetches, body, otherVars,
                   cancelRequested>>

\* Lines 94-132, 28-43: a method other than inferenceStream calls request,
\* which arms the timer and issues the request
CallRequest ==
    /\ pc = "idle"
    /\ \E m \in RequestMethods :
         /\ method' = m
         /\ IF m = "inference"
            THEN \E id \in ModelIds : data' = [model_id |-> id, prompt |-> "hello"]
            ELSE data' = data
    /\ timerArmed' = TRUE
    /\ fetches' = fetches + 1
    /\ pc' = "connecting"
    /\ UNCHANGED <<aborted, deadline, throwing, status, wire, pos,
                   decoderPending, buffer, accumulatedText, tokenCount, modelId,
                   log, cutInside, rejection, body, otherVars,
                   cancelRequested>>

\* Lines 36, 53-57: the abort signal rejects the pending fetch
RequestAborted ==
    /\ Requesting
    /\ pc = "connecting"
    /\ aborted
    /\ rejection' = RequestCatch(AbortError)
    /\ pc' = "rejected"
    /\ UNCHANGED <<timerArmed, aborted, deadline, data, throwing, status, wire,
                   pos, decoderPending, buffer, accumulatedText, tokenCount,
                   modelId, log, cutInside, method, fetches, body, otherVars,
                   cancelRequested>>

\* Lines 36, 53-61: fetch rejects
RequestFetchRejects ==
    /\ Requesting
    /\ pc = "connecting"
    /\ ~aborted
    /\ timerArmed' = FALSE
    /\ rejection' = RequestCatch(NetworkError)
    /\ pc' = "rejected"
    /\ UNCHANGED <<aborted, deadline, data, throwing, status, wire, pos,
                   decoderPending, buffer, accumulatedText, tokenCount, modelId,
                   log, cutInside, method, fetches, body, otherVars,
                   cancelRequested>>

\* Lines 45-48: a response that is not ok; its body is awaited
RequestNotOk ==
    /\ Requesting
    /\ pc = "connecting"
    /\ ~aborted
    /\ \E s \in Statuses : status' = s
    /\ \E text \in Bodies : body' = text
    /\ timerArmed' = FALSE
    /\ pc' = "errorBody"
    /\ UNCHANGED <<aborted, deadline, data, throwing, wire, pos, decoderPending,
                   buffer, accumulatedText, tokenCount, modelId, log, cutInside,
                   rejection, method, fetches, otherVars,
                   cancelRequested>>

\* Lines 48-49, then 53-61: the error is made, thrown, caught and thrown again
RequestErrorBodyRead ==
    /\ Requesting
    /\ pc = "errorBody"
    /\ LET errorText == body IN
         rejection' = RequestCatch(createError(status, errorText))
    /\ pc' = "rejected"
    /\ UNCHANGED <<timerArmed, aborted, deadline, data, throwing, status, wire,
                   pos, decoderPending, buffer, accumulatedText, tokenCount,
                   modelId, log, cutInside, method, fetches, body, otherVars,
                   cancelRequested>>

\* Line 48: response.text() rejects
RequestErrorBodyFails ==
    /\ Requesting
    /\ pc = "errorBody"
    /\ rejection' = RequestCatch(NetworkError)
    /\ pc' = "rejected"
    /\ UNCHANGED <<timerArmed, aborted, deadline, data, throwing, status, wire,
                   pos, decoderPending, buffer, accumulatedText, tokenCount,
                   modelId, log, cutInside, method, fetches, body, otherVars,
                   cancelRequested>>

\* Lines 45-52: an ok response; its body is awaited
RequestOk ==
    /\ Requesting
    /\ pc = "connecting"
    /\ ~aborted
    /\ status' = 200
    /\ timerArmed' = FALSE
    /\ pc' = "jsonBody"
    /\ UNCHANGED <<aborted, deadline, data, throwing, wire, pos, decoderPending,
                   buffer, accumulatedText, tokenCount, modelId, log, cutInside,
                   rejection, method, fetches, body, otherVars,
                   cancelRequested>>

\* Line 52: response.json() yields the value the promise resolves with
RequestJsonRead ==
    /\ Requesting
    /\ pc = "jsonBody"
    /\ pc' = "resolved"
    /\ UNCHANGED <<timerArmed, aborted, deadline, data, throwing, status, wire,
                   pos, decoderPending, buffer, accumulatedText, tokenCount,
                   modelId, log, cutInside, rejection, method, fetches, body,
                   otherVars,
                   cancelRequested>>

\* Line 52, then 53-61: response.json() rejects (a body that is not JSON, or
\* a broken connection)
RequestJsonFails ==
    /\ Requesting
    /\ pc = "jsonBody"
    /\ \E error \in {SyntaxError, NetworkError} :
         rejection' = RequestCatch(error)
    /\ pc' = "rejected"
    /\ UNCHANGED <<timerArmed, aborted, deadline, data, throwing, status, wire,
                   pos, decoderPending, buffer, accumulatedText, tokenCount,
                   modelId, log, cutInside, method, fetches, body, otherVars,
                   cancelRequested>>

Next ==
    \/ Call
    \/ CallRequest
    \/ RequestAborted
    \/ RequestFetchRejects
    \/ RequestNotOk
    \/ RequestErrorBodyRead
    \/ RequestErrorBodyFails
    \/ RequestOk
    \/ RequestJsonRead
    \/ RequestJsonFails
    \/ TimeoutElapses
    \/ Aborted
    \/ FetchRejects
    \/ FetchNotOk
    \/ ErrorBodyRead
    \/ ErrorBodyFails
    \/ FetchNoBody
    \/ FetchOk
    \/ ReadChunk
    \/ ReadDone
    \/ ReadFails

Spec == Init /\ [][Next]_vars

\* Once controller.abort() has run, the pending fetch or read rejects and the
\* continuation of the await runs: the event loop leaves no settled promise
\* unserved.
FairSpec == Spec /\ WF_vars(Aborted) /\ WF_vars(RequestAborted)

\* ------------------------------------------------- the caller gives up
\* The caller no longer wants the stream.  inferenceStream takes the request
\* and the three callbacks (types.ts lines 105-109) and returns a promise of
\* nothing; the AbortController of line 138 is a local of the call.  The
\* caller holds nothing that reaches the pending fetch or read, so its
\* decision changes nothing in the invocation: it is recorded in the history
\* only.
CallerCancels ==
    /\ Streaming
    /\ pc \in {"connecting", "reading"}
    /\ cancelRequested = "none"
    /\ cancelRequested' = pc
    /\ log' = Append(log, EvCancel(pc))
    /\ UNCHANGED <<pc, timerArmed, aborted, deadline, data, throwing, status,
                   wire, pos, decoderPending, buffer, accumulatedText,
                   tokenCount, modelId, cutInside, rejection, method, fetches,
                   body, otherVars>>

\* A streaming call that the caller may give up, with a timeout long enough
\* not to elapse
NextCancel ==
    \/ CallerCancels
    \/ Call
    \/ FetchRejects
    \/ FetchNotOk
    \/ ErrorBodyRead
    \/ ErrorBodyFails
    \/ FetchNoBody
    \/ FetchOk
    \/ ReadChunk
    \/ ReadDone
    \/ ReadFails

SpecCancel == Init /\ [][NextCancel]_vars

\* ------------------------------------- two invocations on one client
\* Two calls of inferenceStream are in progress on the same client; the
\* steps of one run between the awaits of the other.  Each element of
\* streams holds where the invocation stands, the body it reads and the
\* locals of lines 167-171; its callbacks do not throw.
StreamIds == {1, 2}

RequestOf(i) ==
    [model_id |-> IF i = 1 THEN "m1" ELSE "m2", prompt |-> "hello"]

ConcurrentWires ==
    { Utf8(DataMarker \o EncodeToken(TokE) \o <<NL>>
           \o DataMarker \o EncodeToken(TokBang) \o <<NL>>),
      Utf8(DataMarker \o EncodeToken(TokBang) \o <<NL>>) }

IdleStream ==
    [pc |-> "idle", wire |-> <<>>, pos |-> 0, decoderPending |-> <<>>,
     buffer |-> <<>>, accumulatedText |-> <<>>, tokenCount |-> 0, log |-> <<>>,
     modelId |-> "none", throwing |-> {}]

InitConcurrent ==
    /\ IdleClient
    /\ streams = [i \in StreamIds |-> IdleStream]
    /\ entries = <<>>
    /\ ret = NoReturn
    /\ scan = NoScan

\* Variant: buffer, accumulatedText and tokenCount are fields of the client
StoreLocals_OnClient(i, st) ==
    [j \in StreamIds |->
        [(IF j = i THEN st ELSE streams[j])
            EXCEPT !.buffer = st.buffer,
                   !.accumulatedText = st.accumulatedText,
                   !.tokenCount = st.tokenCount]]

\* Lines 167-171: the decoder, buffer, accumulatedText, tokenCount and
\* modelId are locals of the invocation
StoreLocals(i, st) == [streams EXCEPT ![i] = st]

\* Lines 134-149
StreamCall ==
    /\ \E i \in StreamIds :
         /\ streams[i].pc = "idle"
         /\ streams' = [streams EXCEPT ![i].pc = "connecting"]
    /\ UNCHANGED <<clientVars, entries, ret, scan>>

\* Lines 151, 160-171: an ok response with a body; the locals are set
StreamFetchOk ==
    /\ \E i \in StreamIds : \E w \in ConcurrentWires :
         /\ streams[i].pc = "connecting"
         /\ streams' = StoreLocals(i,
                [IdleStream EXCEPT !.pc = "reading", !.wire = w,
                                   !.modelId = RequestOf(i).model_id])
    /\ UNCHANGED <<clientVars, entries, ret, scan>>

\* Lines 174-207: reader.read() yields the next chunk, of any size
StreamReadChunk ==
    /\ \E i \in StreamIds :
         /\ streams[i].pc = "reading"
         /\ \E n \in 1..(Len(streams[i].wire) - streams[i].pos) :
              LET value == SubSeq(streams[i].wire, streams[i].pos + 1,
                                  streams[i].pos + n)
                  st == OnChunk(streams[i], value)
              IN  streams' = StoreLocals(i, [st EXCEPT !.pos = @ + n])
    /\ UNCHANGED <<clientVars, entries, ret, scan>>

\* Lines 174-175: the byte source closes
StreamReadDone ==
    /\ \E i \in StreamIds :
         /\ streams[i].pc = "reading"
         /\ streams' = [streams EXCEPT ![i].pc = "resolved",
                                       ![i].log = Append(@, EvDone)]
    /\ UNCHANGED <<clientVars, entries, ret, scan>>

\* reader.read() rejects, then lines 209-221
StreamReadFails ==
    /\ \E i \in StreamIds :
         /\ streams[i].pc = "reading"
         /\ streams' = [streams EXCEPT
                          ![i].pc = "rejected",
                          ![i].log = @ \o CatchBlock(NetworkError).events]
    /\ UNCHANGED <<clientVars, entries, ret, scan>>

NextConcurrent ==
    \/ StreamCall
    \/ StreamFetchOk
    \/ StreamReadChunk
    \/ StreamReadDone
    \/ StreamReadFails

SpecConcurrent == InitConcurrent /\ [][NextConcurrent]_vars

\* ----------------------------------------------------- the registry
\* An object is a function from its own property names to their values; a
\* property that is not set is not in the domain.  A Map is the sequence of
\* its key/value pairs in insertion order.
Undefined == "undefined"
EmptyObject == [f \in {} |-> f]

\* { ...a, ...b }
Spread(a, b) ==
    [f \in DOMAIN a \cup DOMAIN b |-> IF f \in DOMAIN b THEN b[f] ELSE a[f]]

Pick(o, fields) == [f \in DOMAIN o \cap fields |-> o[f]]

\* the value of a text or number property is truthy
TruthyText(o, f) == f \in DOMAIN o /\ o[f] # ""
TruthyNumber(o, f) == f \in DOMAIN o /\ o[f] # 0

\* Array.prototype.includes
Includes(array, x) == \E i \in DOMAIN array : array[i] = x

\* Map.prototype.has, get, set, delete
MapIndex(m, key) ==
    IF \E i \in DOMAIN m : m[i].key = key
    THEN CHOOSE i \in DOMAIN m : m[i].key = key
    ELSE 0
MapHas(m, key) == MapIndex(m, key) # 0
UndefinedModel == [undefined |-> TRUE]
MapGet(m, key) ==
    IF MapHas(m, key) THEN m[MapIndex(m, key)].value ELSE UndefinedModel
\* Variant: a key that is set again moves to the end
MapSet_MovesToEnd(m, key, value) ==
    Append(SelectSeq(m, LAMBDA pair : pair.key # key),
           [key |-> key, value |-> value])

MapSet(m, key, value) ==
    IF MapHas(m, key)
    THEN [m EXCEPT ![MapIndex(m, key)].value = value]
    ELSE Append(m, [key |-> key, value |-> value])
MapDelete(m, key) == SelectSeq(m, LAMBDA pair : pair.key # key)

\* size_bytes: 4_000_000_000, kept as its digits
DefaultSizeBytes == "4000000000"

\* Variant: the entry is stored as loaded
registerEntry_Loaded(id, entry) ==
    [id |-> id, name |-> entry.id, inference |-> entry.inference,
     context |-> entry.context, quant |-> entry.quant,
     capabilities |-> entry.capabilities, latency |-> entry.latency,
     size_bytes |-> DefaultSizeBytes, loaded |-> TRUE, loaded_at |-> Undefined]

\* Lines 18-33, the entry that is stored
registerEntry(id, entry) ==
    [id |-> id, name |-> entry.id, inference |-> entry.inference,
     context |-> entry.context, quant |-> entry.quant,
     capabilities |-> entry.capabilities, latency |-> entry.latency,
     size_bytes |-> DefaultSizeBytes, loaded |-> FALSE, loaded_at |-> Undefined]

\* Lines 35-37
list(m) == [i \in DOMAIN m |-> m[i].value]

\* Lines 39-41
get(m, id) == MapGet(m, id)

\* Lines 69-71
has(m, id) == MapHas(m, id)

\* Lines 73-75
count(m) == Len(m)

\* Variant: the capability test without its guard
Passes_UnguardedCapability(model, options) ==
    /\ "capability" \in DOMAIN options
    /\ Includes(model.capabilities, options.capability)
    /\ ~(TruthyText(options, "latency") /\ model.latency # options.latency)
    /\ ~(TruthyText(options, "inference") /\ model.inference # options.inference)
    /\ ~(TruthyNumber(options, "minContext") /\ model.context < options.minContext)
    /\ ~("loaded" \in DOMAIN options /\ model.loaded # options.loaded)

\* Variant: the context comparison turned around
Passes_ContextCompareReversed(model, options) ==
    /\ ~(TruthyText(options, "capability")
            /\ ~Includes(model.capabilities, options.capability))
    /\ ~(TruthyText(options, "latency") /\ model.latency # options.latency)
    /\ ~(TruthyText(options, "inference") /\ model.inference # options.inference)
    /\ ~(TruthyNumber(options, "minContext") /\ model.context > options.minContext)
    /\ ~("loaded" \in DOMAIN options /\ model.loaded # options.loaded)

\* Lines 44-61, the callback of filter
Passes(model, options) ==
    /\ ~(TruthyText(options, "capability")
            /\ ~Includes(model.capabilities, options.capability))
    /\ ~(TruthyText(options, "latency") /\ model.latency # options.latency)
    /\ ~(TruthyText(options, "inference") /\ model.inference # options.inference)
    /\ ~(TruthyNumber(options, "minContext") /\ model.context < options.minContext)
    /\ ~("loaded" \in DOMAIN options /\ model.loaded # options.loaded)

\* Array.prototype.filter with that callback
Filter(models, options) == SelectSeq(models, LAMBDA model : Passes(model, options))

\* Lines 43-63
find(m, options) == Filter(list(m), options)

\* Variant: the last match
findOne_Last(m, options) ==
    LET results == find(m, options) IN
    IF results = <<>> THEN UndefinedModel ELSE results[Len(results)]

\* Lines 65-67
findOne(m, options) ==
    LET results == find(m, options) IN
    IF results = <<>> THEN UndefinedModel ELSE results[1]

\* The keys and the entries given to the registry
Keys == {"a", "b"}

InputChat ==
    [id |-> "llama3:8b", inference |-> "ollama", context |-> 4096,
     quant |-> "q4", capabilities |-> <<"chat">>, latency |-> "fast"]
InputLarge ==
    [id |-> "llama3:70b", inference |-> "llama", context |-> 8192,
     quant |-> Undefined, capabilities |-> <<"chat", "vision">>,
     latency |-> "slow"]
InputEmbedding ==
    [id |-> "embed", inference |-> "ollama", context |-> 8192,
     quant |-> Undefined, capabilities |-> <<"embedding">>,
     latency |-> Undefined]
Inputs == {InputChat, InputLarge, InputEmbedding}

Updates == { [id |-> "renamed", context |-> 8192] }

\* an object of options with one property, or without it
FieldChoices(name, values) ==
    {EmptyObject} \cup { [f \in {name} |-> v] : v \in values }

\* FindModelOptions
FindOptions ==
    { Spread(Spread(Spread(c, l), i), n) :
        c \in FieldChoices("capability", {"chat", "embedding"}),
        l \in FieldChoices("latency", {"fast"}),
        i \in FieldChoices("inference", {"llama"}),
        n \in FieldChoices("minContext", {0, 8192}) }
    \cup { Spread(c, ld) :
             c \in FieldChoices("capability", {"chat"}),
             ld \in { [loaded |-> b] : b \in BOOLEAN } }

\* ModelRegistryConfig.entries: an object with at most one property per key
Configs ==
    {<<>>}
    \cup { <<[key |-> k, value |-> e]>> : k \in Keys, e \in Inputs }
    \cup UNION { { <<[key |-> k1, value |-> e1], [key |-> k2, value |-> e2]>> :
                      k2 \in Keys \ {k1}, e1 \in Inputs, e2 \in Inputs } :
                    k1 \in Keys }

\* Lines 11-16
RECURSIVE Construct(_, _)
Construct(m, config) ==
    IF config = <<>> THEN m
    ELSE Construct(MapSet(m, Head(config).key,
                          registerEntry(Head(config).key, Head(config).value)),
                   Tail(config))

InitRegistry ==
    /\ IdleClient
    /\ streams = NoStreams
    /\ \E config \in Configs : entries = Construct(<<>>, config)
    /\ ret = NoReturn
    /\ scan = NoScan

Returned(op, args, value) ==
    [op |-> op, args |-> args, thrown |-> FALSE, value |-> value]
Thrown(op, args, message) ==
    [op |-> op, args |-> args, thrown |-> TRUE, value |-> message]

\* Lines 77-82
Add ==
    /\ \E id \in Keys : \E entry \in Inputs :
         IF MapHas(entries, id)
         THEN /\ ret' = Thrown("add", <<id, entry>>,
                               <<"Model with id '", id, "' already exists">>)
              /\ entries' = entries
         ELSE /\ entries' = MapSet(entries, id, registerEntry(id, entry))
              /\ ret' = Returned("add", <<id, entry>>, registerEntry(id, entry))
    /\ UNCHANGED <<clientVars, streams, scan>>

\* Variant: the updates are spread after the id
Update_IdFromUpdates ==
    /\ \E id \in Keys : \E updates \in Updates :
         LET existing == MapGet(entries, id) IN
         IF existing = UndefinedModel
         THEN /\ ret' = Thrown("update", <<id, updates>>,
                               <<"Model with id '", id, "' not found">>)
              /\ entries' = entries
         ELSE LET updated == Spread(Spread(existing, [id |-> id]), updates) IN
              /\ entries' = MapSet(entries, id, updated)
              /\ ret' = Returned("update", <<id, updates>>, updated)
    /\ UNCHANGED <<clientVars, streams, scan>>

\* Lines 84-97
Update ==
    /\ \E id \in Keys : \E updates \in Updates :
         LET existing == MapGet(entries, id) IN
         IF existing = UndefinedModel
         THEN /\ ret' = Thrown("update", <<id, updates>>,
                               <<"Model with id '", id, "' not found">>)
              /\ entries' = entries
         ELSE LET updated == Spread(Spread(existing, updates), [id |-> id]) IN
              /\ entries' = MapSet(entries, id, updated)
              /\ ret' = Returned("update", <<id, updates>>, updated)
    /\ UNCHANGED <<clientVars, streams, scan>>

\* Lines 99-101
Remove ==
    /\ \E id \in Keys :
         /\ entries' = MapDelete(entries, id)
         /\ ret' = Returned("remove", <<id>>, MapHas(entries, id))
    /\ UNCHANGED <<clientVars, streams, scan>>

\* Lines 103-105
Clear ==
    /\ entries' = <<>>
    /\ ret' = Returned("clear", <<>>, Undefined)
    /\ UNCHANGED <<clientVars, streams, scan>>

\* The arguments of get and has: the keys of the Map and the ids declared
\* in the entries
GetArgs == Keys \cup { entry.id : entry \in Inputs }

\* Lines 39-41 and 69-71: get and has called with the same argument
Get ==
    /\ \E id \in GetArgs :
         ret' = Returned("get", <<id>>,
                         [model |-> get(entries, id), has |-> has(entries, id)])
    /\ UNCHANGED <<clientVars, streams, entries, scan>>

\* Lines 43-67: find and findOne called with the same options
Find ==
    /\ \E options \in FindOptions :
         ret' = Returned("find", <<options>>,
                         [results |-> find(entries, options),
                          first |-> findOne(entries, options)])
    /\ UNCHANGED <<clientVars, streams, entries, scan>>

\* The body of a request to the router
RouterOptions ==
    { Spread(Spread(Spread(mo, l), i), n) :
        mo \in FieldChoices("model", {"a", "zz", ""}),
        l \in FieldChoices("latency", {"fast"}),
        i \in FieldChoices("inference", {"llama"}),
        n \in FieldChoices("minContext", {8192}) }

RouterBodies ==
    { [prompt |-> "hello"] }
    \cup { [prompt |-> "hello", options |-> o] : o \in RouterOptions }

InferenceCall(model, request) ==
    [model_id |-> model.id, prompt |-> request.prompt,
     max_tokens |-> Undefined, temperature |-> Undefined]

\* Variant: the criteria are tried before the named model
RouterResolve_CriteriaFirst(m, request) ==
    LET options == IF "options" \in DOMAIN request THEN request.options
                   ELSE EmptyObject
        selected == findOne(m, Spread([capability |-> "chat"],
                               Pick(options, {"latency", "inference", "minContext"})))
        model == IF selected # UndefinedModel THEN selected
                 ELSE IF TruthyText(options, "model") THEN get(m, options.model)
                 ELSE UndefinedModel
    IN  IF model = UndefinedModel
        THEN [thrown |-> TRUE, calls |-> <<>>,
              message |-> <<"No suitable model found for the given constraints">>]
        ELSE [thrown |-> FALSE, message |-> <<>>,
              calls |-> <<InferenceCall(model, request)>>]

\* Variant: the caller's criteria alone, without the required capability
RouterResolve_NoRequiredCapability(m, request) ==
    LET options == IF "options" \in DOMAIN request THEN request.options
                   ELSE EmptyObject
        model == IF TruthyText(options, "model")
                 THEN get(m, options.model)
                 ELSE findOne(m, Pick(options, {"latency", "inference", "minContext"}))
    IN  IF model = UndefinedModel
        THEN [thrown |-> TRUE, calls |-> <<>>,
              message |->
                IF TruthyText(options, "model")
                THEN <<"Model '", options.model, "' not found in registry">>
                ELSE <<"No suitable model found for the given constraints">>]
        ELSE [thrown |-> FALSE, message |-> <<>>,
              calls |-> <<InferenceCall(model, request)>>]

\* index.ts lines 119-149: the model is resolved, then client.inference is
\* called once
RouterResolve(m, request) ==
    LET options == IF "options" \in DOMAIN request THEN request.options
                   ELSE EmptyObject
        model == IF TruthyText(options, "model")
                 THEN get(m, options.model)
                 ELSE findOne(m, Spread([capability |-> "chat"],
                                 Pick(options, {"latency", "inference", "minContext"})))
    IN  IF model = UndefinedModel
        THEN [thrown |-> TRUE, calls |-> <<>>,
              message |->
                IF TruthyText(options, "model")
                THEN <<"Model '", options.model, "' not found in registry">>
                ELSE <<"No suitable model found for the given constraints">>]
        ELSE [thrown |-> FALSE, message |-> <<>>,
              calls |-> <<InferenceCall(model, request)>>]

\* index.ts lines 107-150: POST router/chat, up to the call of the client
RouterChat ==
    /\ \E request \in RouterBodies :
         LET r == RouterResolve(entries, request) IN
           ret' = [op |-> "router/chat", args |-> <<request>>,
                   thrown |-> r.thrown, value |-> r.message, calls |-> r.calls]
    /\ UNCHANGED <<clientVars, streams, entries, scan>>

NextRegistry ==
    \/ Add
    \/ Update
    \/ Remove
    \/ Clear
    \/ Get
    \/ Find
    \/ RouterChat

SpecRegistry == InitRegistry /\ [][NextRegistry]_vars

\* A find in two steps: list() copies the values (line 36), then filter runs
\* on the copy (lines 44-61).  The other operations of the registry are let
\* in between the two.  scan.started is a history field: the Map as it was
\* when list() was called.
ScanCriteria == { EmptyObject, [capability |-> "chat"], [minContext |-> 8192] }

ScanStart ==
    /\ scan = NoScan
    /\ \E options \in ScanCriteria :
         scan' = [active |-> TRUE, options |-> options,
                  snapshot |-> list(entries), started |-> entries]
    /\ UNCHANGED <<clientVars, streams, entries, ret>>

\* Variant: filter runs on the values of the Map at the time it runs
ScanFinish_LiveView ==
    /\ scan # NoScan
    /\ LET results == Filter(list(entries), scan.options) IN
         ret' = [op |-> "find", args |-> <<scan.options>>, thrown |-> FALSE,
                 value |-> [results |-> results,
                            first |-> IF results = <<>> THEN UndefinedModel
                                      ELSE results[1]],
                 started |-> scan.started]
    /\ scan' = NoScan
    /\ UNCHANGED <<clientVars, streams, entries>>

ScanFinish ==
    /\ scan # NoScan
    /\ LET results == Filter(scan.snapshot, scan.options) IN
         ret' = [op |-> "find", args |-> <<scan.options>>, thrown |-> FALSE,
                 value |-> [results |-> results,
                            first |-> IF results = <<>> THEN UndefinedModel
                                      ELSE results[1]],
                 started |-> scan.started]
    /\ scan' = NoScan
    /\ UNCHANGED <<clientVars, streams, entries>>

NextScan ==
    \/ ScanStart
    \/ ScanFinish
    \/ Add
    \/ Update
    \/ Remove
    \/ Clear

SpecScan == InitRegistry /\ [][NextScan]_vars

\* ------------------------------------------------- reading the history
Terminal == pc \in {"resolved", "rejected"}

Idx(kind) == { i \in DOMAIN log : log[i].ev = kind }
NumEv(kind) == Cardinality(Idx(kind))

IsOnToken(e) == e.ev = "onToken"
IsOnError(e) == e.ev = "onError"

\* the onToken invocations among the first n events
OnTokenCalls(n) == SelectSeq(SubSeq(log, 1, n), IsOnToken)

RECURSIVE ConcatFragments(_)
ConcatFragments(calls) ==
    IF calls = <<>> THEN <<>>
    ELSE Head(calls).token.token \o ConcatFragments(Tail(calls))

\* a completion-flagged token was decoded among the first n events
CompletionSeen(n) ==
    \E i \in 1..n : log[i].ev = "decoded" /\ log[i].token.complete

\* --------------------------------------------------------------- claims
\* C1: when the streaming invocation has ended, exactly one of onComplete and
\* onError has been invoked, and exactly once (callbacks that do not throw).
C1_ExactlyOneTerminalCallback ==
    (Streaming /\ Terminal /\ throwing = {})
        => NumEv("onComplete") + NumEv("onError") = 1

\* C2: when the byte source closes before any completion-flagged token has
\* been decoded, the invocation fails: onError is invoked once, onComplete
\* never, and the promise is not resolved.
C2_EarlyCloseFails ==
    (Terminal /\ throwing = {} /\ NumEv("done") = 1 /\ ~CompletionSeen(Len(log)))
        => /\ pc = "rejected"
           /\ NumEv("onError") = 1
           /\ NumEv("onComplete") = 0

\* C3: when the timeout elapses in the Streaming state before a completion
\* token, the invocation ends with exactly one onError, carrying the timeout
\* error, and without onComplete.
C3_TimeoutWhileStreaming ==
    \A i \in Idx("timeout elapsed") :
        (Terminal /\ throwing = {} /\ log[i].phase = "reading" /\ ~CompletionSeen(i))
            => /\ SelectSeq(log, IsOnError) = <<EvOnError(TimeoutError)>>
               /\ NumEv("onComplete") = 0
               /\ OnTokenCalls(Len(log)) = OnTokenCalls(i)

\* C4: once a completion-flagged token has been decoded, nothing follows but
\* its own delivery: no further record is decoded and no further onToken,
\* onComplete or onError is invoked.
C4_CompletedAbsorbing ==
    \A i \in Idx("decoded") :
        (log[i].token.complete /\ throwing = {})
            => \A j \in DOMAIN log :
                 j > i + 2 => log[j].ev \notin {"decoded", "onToken",
                                                "onComplete", "onError"}

\* C5: a response that is not 2xx, whose body is read, ends the streaming
\* invocation with no onToken, no onComplete and exactly one onError,
\* carrying the classified error.
C5_NotOkFailsOnce ==
    (Streaming /\ Terminal /\ status \in Statuses /\ rejection.statusCode = status)
        => /\ NumEv("onToken") = 0
           /\ NumEv("onComplete") = 0
           /\ SelectSeq(log, IsOnError) = <<EvOnError(rejection)>>

\* C6: the tokens_generated passed to onComplete is the number of onToken
\* invocations made so far, the completion-flagged token included.
C6_CountMatchesOnTokenCalls ==
    \A i \in Idx("onComplete") :
        log[i].response.tokens_generated = Len(OnTokenCalls(i))

C6_Witness ==
    \E i \in Idx("onComplete") :
        /\ log[i].response.tokens_generated = 2
        /\ Len(OnTokenCalls(i)) = 2

\* C7: the text passed to onComplete is the concatenation, in delivery order,
\* of the fragments of the tokens passed to onToken, and its model identifier
\* is the one of the request.
C7_TextIsConcatenation ==
    \A i \in Idx("onComplete") :
        /\ log[i].response.text = ConcatFragments(OnTokenCalls(i))
        /\ log[i].response.model_id = data.model_id

C7_Witness ==
    \E i \in Idx("onComplete") :
        /\ log[i].response.text = <<EAcute, "!">>
        /\ Len(OnTokenCalls(i)) = 2
        /\ log[i].response.model_id = "m1"

StreamOpened ==
    Streaming /\ pc \in {"reading", "resolved", "rejected"} /\ status = 200

IsDelivery(e) == e.ev \in {"onToken", "onComplete"}

FreshLocals ==
    [decoderPending |-> <<>>, buffer |-> <<>>, accumulatedText |-> <<>>,
     tokenCount |-> 0, log |-> <<>>, modelId |-> modelId, throwing |-> throwing]

\* what the bytes received so far give when they arrive as one chunk
Unsplit == OnChunk(FreshLocals, SubSeq(wire, 1, pos))

\* C8: however the bytes received so far were cut into chunks, the onToken
\* and onComplete invocations are those of the same bytes read as one chunk.
C8_SplitInvariance ==
    StreamOpened => SelectSeq(log, IsDelivery) = SelectSeq(Unsplit.log, IsDelivery)

C8_Witness ==
    /\ cutInside
    /\ wire = Utf8(DataMarker \o EncodeToken(TokE) \o <<NL>>
                   \o DataMarker \o EncodeToken(TokBang) \o <<NL>>)
    /\ pos = Len(wire)
    /\ NumEv("onToken") = 2
    /\ NumEv("onComplete") = 1

\* the lines of the byte stream whose newline has been received
ReceivedLines ==
    LET ls == Split(Decode(<<>>, SubSeq(wire, 1, pos)).chars)
    IN  SubSeq(ls, 1, Len(ls) - 1)

\* a data record is a line that begins with the six-character marker
IsDataRecord(line) == StartsWith(line, DataMarker)
PayloadOf(line) == Slice(line, Len(DataMarker))
IsValidRecord(line) == IsDataRecord(line) /\ JSONParse(PayloadOf(line)).ok
IsInvalidRecord(line) == IsDataRecord(line) /\ ~JSONParse(PayloadOf(line)).ok
IsInvalidNonEmptyRecord(line) ==
    IsInvalidRecord(line) /\ Trim(PayloadOf(line)) # <<>>

RECURSIVE TokensOf(_)
TokensOf(lines) ==
    IF lines = <<>> THEN <<>>
    ELSE <<JSONParse(PayloadOf(Head(lines))).value>> \o TokensOf(Tail(lines))

RECURSIVE TokensIn(_)
TokensIn(calls) ==
    IF calls = <<>> THEN <<>> ELSE <<Head(calls).token>> \o TokensIn(Tail(calls))

ValidTokens == TokensOf(SelectSeq(ReceivedLines, IsValidRecord))

\* the records with an invalid payload change nothing and stop nothing: the
\* tokens delivered, the text and the count are those of the valid records
InvalidRecordsSkipped ==
    /\ TokensIn(OnTokenCalls(Len(log))) = ValidTokens
    /\ tokenCount = Len(ValidTokens)
    /\ accumulatedText = ConcatFragments(OnTokenCalls(Len(log)))
    /\ pc = "reading" => NumEv("onError") = 0

\* C9 (as stated): every data record whose payload is not valid JSON is
\* logged, produces no callback, changes neither the text nor the count, and
\* the later valid records are still delivered in order.
C9_InvalidRecordLoggedAndSkipped ==
    (StreamOpened /\ throwing = {})
        => /\ InvalidRecordsSkipped
           /\ NumEv("console.error") = Len(SelectSeq(ReceivedLines, IsInvalidRecord))

\* C9 (amended): every data record whose payload is not valid JSON produces
\* no callback, changes neither the text nor the count, and the later valid
\* records are still delivered in order; it is logged when its payload is
\* not empty, and ignored silently when it is.
C9_NonEmptyInvalidRecordLogged ==
    (StreamOpened /\ throwing = {})
        => /\ InvalidRecordsSkipped
           /\ NumEv("console.error")
                = Len(SelectSeq(ReceivedLines, IsInvalidNonEmptyRecord))

C9_Witness ==
    /\ StreamOpened /\ throwing = {}
    /\ Len(ReceivedLines) >= 2
    /\ IsInvalidNonEmptyRecord(ReceivedLines[1])
    /\ IsValidRecord(ReceivedLines[2])
    /\ log[1].ev = "console.error"
    /\ NumEv("onToken") = 1

\* C10: every decoded record is delivered to onToken before the next record
\* is decoded, the onToken invocations follow the order of the data records
\* of the byte stream, and at each onToken invocation the accumulated text
\* and the token count already include the token.
C10_SequentialInOrderDelivery ==
    /\ \A i \in Idx("decoded") :
         /\ Len(log) > i
         /\ log[i + 1].ev = "onToken"
         /\ log[i + 1].token = log[i].token
    /\ StreamOpened => TokensIn(OnTokenCalls(Len(log))) = ValidTokens
    /\ \A i \in Idx("onToken") :
         /\ log[i].count = Len(OnTokenCalls(i))
         /\ log[i].text = ConcatFragments(OnTokenCalls(i))

C10_Witness ==
    \E i, j \in Idx("onToken") :
        /\ i < j
        /\ log[i].token = TokE /\ log[i].count = 1 /\ log[i].text = <<EAcute>>
        /\ log[j].token = TokBang /\ log[j].count = 2
        /\ log[j].text = <<EAcute, "!">>

\* C11: when the timeout elapses while the call is connecting, the request is
\* aborted and the call ends rejected: inferenceStream has invoked onError
\* exactly once, with the timeout error, and neither onToken nor onComplete,
\* and rejects with that error; a call through request rejects with its
\* timeout error.
C11_AfterConnectTimeout ==
    deadline = "connecting"
        => /\ aborted
           /\ ~Terminal => pc = "connecting"
           /\ Terminal =>
                /\ pc = "rejected"
                /\ Streaming =>
                     /\ SelectSeq(log, IsOnError) = <<EvOnError(TimeoutError)>>
                     /\ NumEv("onToken") = 0
                     /\ NumEv("onComplete") = 0
                     /\ rejection = TimeoutError
                /\ Requesting => rejection = RequestTimeoutError

C11_ConnectTimeoutFails ==
    /\ []C11_AfterConnectTimeout
    /\ (deadline = "connecting") ~> (pc = "rejected")

C11_Witness ==
    /\ Streaming
    /\ pc = "rejected"
    /\ log = <<EvTimeout("connecting"), EvOnError(TimeoutError)>>
    /\ rejection = TimeoutError

\* entry e satisfies every criterion that is given
Satisfies(e, criteria) ==
    /\ "capability" \in DOMAIN criteria
          => \E k \in DOMAIN e.capabilities : e.capabilities[k] = criteria.capability
    /\ "latency" \in DOMAIN criteria => e.latency = criteria.latency
    /\ "inference" \in DOMAIN criteria => e.inference = criteria.inference
    /\ "minContext" \in DOMAIN criteria => e.context >= criteria.minContext
    /\ "loaded" \in DOMAIN criteria => e.loaded = criteria.loaded

\* the positions, in a Map, of the entries that satisfy the criteria
MatchingIn(m, criteria) ==
    { i \in DOMAIN m : Satisfies(m[i].value, criteria) }

Lowest(indexes) == CHOOSE i \in indexes : \A j \in indexes : i <= j

\* find and findOne have just returned
FindReturned == ret.op = "find"

\* C12: findOne returns the first entry, in the order of the Map, that
\* satisfies every criterion given (capability among the entry's
\* capabilities, latency equal, backend equal, context at least the
\* minimum); when no entry does, it returns undefined and does not throw.
C12_FirstMatchWins ==
    FindReturned
        => LET matching == MatchingIn(entries, ret.args[1]) IN
             /\ ~ret.thrown
             /\ ret.value.first =
                  IF matching = {} THEN UndefinedModel
                  ELSE entries[Lowest(matching)].value

C12_Witness ==
    /\ FindReturned
    /\ Len(entries) = 2
    /\ ret.args[1] = [capability |-> "chat", minContext |-> 8192]
    /\ MatchingIn(entries, ret.args[1]) = {2}
    /\ ret.value.first = entries[2].value

\* C13: when the criteria carry a minimum context c, zero included, neither
\* findOne nor find returns an entry whose context is below c.
C13_MinContextIsLowerBound ==
    (FindReturned /\ "minContext" \in DOMAIN ret.args[1])
        => /\ \A i \in DOMAIN ret.value.results :
                ret.value.results[i].context >= ret.args[1].minContext
           /\ ret.value.first # UndefinedModel
                => ret.value.first.context >= ret.args[1].minContext

C13_Witness ==
    /\ FindReturned
    /\ ret.args[1] = [minContext |-> 8192]
    /\ Len(entries) = 2
    /\ entries[1].value.context = 4096
    /\ ret.value.results = <<entries[2].value>>

\* C14: on a registry that is not empty, with no criterion given, findOne
\* returns the first entry of the Map and find returns all the entries, in
\* the order of the Map.
C14_NoCriteriaReturnsAll ==
    (FindReturned /\ ret.args[1] = EmptyObject /\ entries # <<>>)
        => /\ ret.value.first = entries[1].value
           /\ ret.value.results = [i \in DOMAIN entries |-> entries[i].value]

C14_Witness ==
    /\ FindReturned
    /\ ret.args[1] = EmptyObject
    /\ Len(entries) = 2
    /\ entries[1].value.capabilities = <<"embedding">>
    /\ Len(ret.value.results) = 2
    /\ ret.value.first.id = entries[1].key

\* the router has just handled a request
Routed == ret.op = "router/chat"
RoutedOptions ==
    IF "options" \in DOMAIN ret.args[1] THEN ret.args[1].options ELSE EmptyObject

\* the request names a model
NamesModel == "model" \in DOMAIN RoutedOptions /\ RoutedOptions.model # ""

\* what the router selects by: the caller's criteria and the chat capability
RoutedCriteria ==
    [f \in {"capability"} \cup (DOMAIN RoutedOptions \ {"model"}) |->
        IF f = "capability" THEN "chat" ELSE RoutedOptions[f]]

\* the position of the entry the request resolves to, or 0
ResolvedIndex ==
    IF NamesModel
    THEN IF \E i \in DOMAIN entries : entries[i].key = RoutedOptions.model
         THEN CHOOSE i \in DOMAIN entries : entries[i].key = RoutedOptions.model
         ELSE 0
    ELSE IF MatchingIn(entries, RoutedCriteria) = {} THEN 0
         ELSE Lowest(MatchingIn(entries, RoutedCriteria))

C16_OneFetchPerCall ==
    fetches = (IF pc = "idle" THEN 0 ELSE 1)

C16_Witness ==
    /\ Streaming
    /\ pc = "rejected"
    /\ rejection = NetworkError
    /\ pos > 0
    /\ fetches = 1

\* the text holds Model '<id>' with an id that is not empty
HasModelReference(text) ==
    \E i \in 1..Len(text) : \E n \in 1..Len(text) :
        /\ i + Len(ModelRefPrefix) + n <= Len(text)
        /\ SubSeq(text, i, i + Len(ModelRefPrefix) - 1) = ModelRefPrefix
        /\ \A k \in 1..n : text[i + Len(ModelRefPrefix) + k - 1] # Quote
        /\ text[i + Len(ModelRefPrefix) + n] = Quote

ExpectedCode ==
    IF status = 404 /\ HasModelReference(body) THEN "MODEL_NOT_FOUND"
    ELSE IF status = 412 /\ HasModelReference(body) THEN "MODEL_NOT_LOADED"
    ELSE "API_ERROR"

\* the call ended with the error made from a response that is not ok
FailedWithResponseError ==
    pc = "rejected" /\ status \in Statuses /\ rejection # NetworkError

\* C17: the error made from a response that is not ok has the code
\* MODEL_NOT_FOUND when the status is 404 and the body holds Model '<id>',
\* MODEL_NOT_LOADED when the status is 412 and the body holds Model '<id>',
\* and API_ERROR otherwise; it carries the status and, as its message, the
\* body.
C17_ErrorClassification ==
    FailedWithResponseError
        => /\ rejection.code = ExpectedCode
           /\ rejection.statusCode = status
           /\ rejection.message = body
           /\ \A i \in Idx("onError") : log[i].error = rejection

C17_Witness ==
    /\ FailedWithResponseError
    /\ Requesting
    /\ status = 412
    /\ body = BodyNotLoaded
    /\ rejection.code = "MODEL_NOT_LOADED"

\* C18: the buffer is the text after the last newline received; JSON.parse
\* has been attempted, and callbacks made and tokens counted, only for lines
\* whose newline has been received, and among them only for data lines.
C18_RecordsNeedTheirNewline ==
    (StreamOpened /\ throwing = {})
        => LET ls == Split(Decode(<<>>, SubSeq(wire, 1, pos)).chars) IN
             /\ buffer = ls[Len(ls)]
             /\ NumEv("decoded") + NumEv("console.error")
                  = Len(SelectSeq(ReceivedLines, IsValidRecord))
                    + Len(SelectSeq(ReceivedLines, IsInvalidNonEmptyRecord))
             /\ NumEv("onToken") = Len(SelectSeq(ReceivedLines, IsValidRecord))
             /\ tokenCount = Len(SelectSeq(ReceivedLines, IsValidRecord))
             /\ NumEv("onComplete") = Len(SelectSeq(ValidTokens, LAMBDA t : t.complete))

C18_Witness ==
    /\ StreamOpened /\ throwing = {}
    /\ ReceivedLines = <<EventMarker, <<>>>>
    /\ buffer = DataMarker \o <<"{">>
    /\ pos < Len(wire)
    /\ tokenCount = 0
    /\ NumEv("decoded") + NumEv("console.error") + NumEv("onToken") = 0

\* what invocation i has when the bytes it has received so far arrive as one
\* chunk and no other invocation exists
AloneOf(i) ==
    OnChunk([IdleStream EXCEPT !.modelId = RequestOf(i).model_id],
            SubSeq(streams[i].wire, 1, streams[i].pos))

EndingOf(i) ==
    IF streams[i].pc = "resolved" THEN <<EvDone>>
    ELSE IF streams[i].pc = "rejected" THEN <<EvOnError(NetworkError)>>
    ELSE <<>>

\* C19: with two invocations of inferenceStream interleaved on one client,
\* the callbacks, the buffer, the accumulated text and the token count of
\* each are those it has when it runs alone on the same bytes, and its
\* completion carries the model identifier of its own request.
C19_StreamsAreIndependent ==
    \A i \in DOMAIN streams :
        streams[i].pc \in {"reading", "resolved", "rejected"}
            => /\ streams[i].log = AloneOf(i).log \o EndingOf(i)
               /\ streams[i].buffer = AloneOf(i).buffer
               /\ streams[i].accumulatedText = AloneOf(i).accumulatedText
               /\ streams[i].tokenCount = AloneOf(i).tokenCount
               /\ \A k \in DOMAIN streams[i].log :
                    streams[i].log[k].ev = "onComplete"
                        => streams[i].log[k].response.model_id
                             = RequestOf(i).model_id

C19_Witness ==
    /\ DOMAIN streams = StreamIds
    /\ streams[1].pc = "reading" /\ streams[2].pc = "reading"
    /\ streams[1].wire # streams[2].wire
    /\ streams[1].tokenCount = 1 /\ streams[1].buffer # <<>>
    /\ streams[2].tokenCount = 0 /\ streams[2].buffer # <<>>

\* a find in two steps has just returned
ScanReturned == ret.op = "find" /\ "started" \in DOMAIN ret

\* the result is that of the Map as it was when the scan started
C20_ResultFromSnapshot ==
    ScanReturned
        => LET matching == MatchingIn(ret.started, ret.args[1]) IN
             /\ Len(ret.value.results) = Cardinality(matching)
             /\ \A k \in DOMAIN ret.value.results :
                  \E i \in matching :
                     /\ ret.value.results[k] = ret.started[i].value
                     /\ Cardinality({ j \in matching : j < i }) = k - 1
             /\ ret.value.first =
                  IF matching = {} THEN UndefinedModel
                  ELSE ret.started[Lowest(matching)].value

\* C20: the two steps of a find leave the Map as it is, and what find and
\* findOne return is computed from the Map as it was when the scan started,
\* whatever add, update, remove or clear did in between.
C20_SelectionReadsSnapshot ==
    /\ []C20_ResultFromSnapshot
    /\ [][scan' # scan => entries' = entries]_vars

C20_Witness ==
    /\ ScanReturned
    /\ ret.started # entries
    /\ Len(ret.started) = 2
    /\ entries = <<>>
    /\ Len(ret.value.results) = 2

\* C21: when the caller has cancelled a stream that was connecting or
\* streaming, the invocation ends rejected, onError has been invoked exactly
\* once, with an error that is not the timeout error, and onComplete is not
\* invoked after the cancellation (the response, if any, was ok and had a
\* body).
C21_CancelEndsCancelled ==
    \A i \in Idx("cancel requested") :
        (Terminal /\ throwing = {} /\ status \notin Statuses
                  /\ rejection # NoBodyError)
            => /\ pc = "rejected"
               /\ NumEv("onError") = 1
               /\ \A j \in Idx("onError") : log[j].error # TimeoutError
               /\ \A j \in Idx("onComplete") : j < i

\* C22: the token identifiers of the tokens passed to onToken strictly
\* increase from one invocation to the next (callbacks that do not throw,
\* invocations up to the first completion-flagged token).
C22_TokenIdsIncrease ==
    \A i, j \in Idx("onToken") :
        (/\ throwing = {}
         /\ i < j
         /\ \A k \in Idx("onToken") : k < j => ~log[k].token.complete)
            => log[i].token.token_id < log[j].token.token_id

\* C24: when onToken or onComplete throws, the exception is logged like a
\* parse failure, right after the callback; it reaches neither onError nor
\* the returned promise; every later record is still delivered; the token
\* stays counted and in the accumulated text; and onComplete is not invoked
\* for a token whose onToken threw.
C24_CallbackExceptionIsPerRecord ==
    (StreamOpened /\ throwing # {} /\ rejection # NoBodyError)
        => /\ TokensIn(OnTokenCalls(Len(log))) = ValidTokens
           /\ tokenCount = Len(ValidTokens)
           /\ accumulatedText = ConcatFragments(OnTokenCalls(Len(log)))
           /\ \A i \in Idx(CHOOSE c \in throwing : TRUE) :
                /\ i < Len(log)
                /\ log[i + 1].ev = "console.error"
           /\ NumEv("console.error")
                = Len(SelectSeq(ReceivedLines, IsInvalidNonEmptyRecord))
                  + NumEv(CHOOSE c \in throwing : TRUE)
           /\ "onToken" \in throwing => NumEv("onComplete") = 0
           /\ pc # "rejected" => NumEv("onError") = 0 /\ rejection = NoError
           /\ pc = "rejected" =>
                /\ rejection \in {NetworkError, TimeoutError}
                /\ SelectSeq(log, IsOnError) = <<EvOnError(rejection)>>

C24_Witness ==
    /\ throwing = {"onToken"}
    /\ pc = "resolved"
    /\ tokenCount = 2
    /\ accumulatedText = <<EAcute, "!">>
    /\ NumEv("onToken") = 2
    /\ NumEv("console.error") = 2
    /\ NumEv("onComplete") = 0

\* the last onError invocation
LastOnError == CHOOSE i \in Idx("onError") : \A j \in Idx("onError") : j <= i

\* C25: with callbacks that do not throw, the promise of inferenceStream is
\* rejected exactly when onError has been invoked, and with the error given
\* to the last onError invocation; when the byte source has reached its end
\* the promise is resolved, whether or not a completion-flagged token was
\* seen.
C25_RejectsIffOnError ==
    (Streaming /\ throwing = {})
        => /\ NumEv("onError") > 0 <=> pc = "rejected"
           /\ pc = "rejected" => log[LastOnError].error = rejection
           /\ NumEv("done") = 1 => pc = "resolved"
           /\ pc # "rejected" => rejection = NoError

C25_Witness ==
    /\ Streaming /\ throwing = {}
    /\ pc = "rejected"
    /\ status = 404
    /\ NumEv("onError") = 2
    /\ log[LastOnError].error = rejection
    /\ rejection.code = "MODEL_NOT_FOUND"

\* get and has have just returned
GetReturned == ret.op = "get"

\* the argument is the id declared in the input of some entry
DeclaredIn(m, x) == \E i \in DOMAIN m : m[i].value.name = x

\* C23: get(x) returns the model, and has(x) is true, when x is the id that
\* was declared in the entry's id field.
C23_GetByDeclaredId ==
    (GetReturned /\ DeclaredIn(entries, ret.args[1]))
        => /\ ret.value.has
           /\ ret.value.model # UndefinedModel
           /\ ret.value.model.name = ret.args[1]

\* the keys of a Map
KeysOf(m) == { m[i].key : i \in DOMAIN m }

\* C26: every entry stored under key k has id k, also after an update that
\* carries an id; get(k).id is k whenever has(k); count() is the number of
\* distinct keys; list() has no two entries with the same id.
C26_KeyInvariant ==
    /\ \A i \in DOMAIN entries : entries[i].value.id = entries[i].key
    /\ \A k \in GetArgs : has(entries, k) => get(entries, k).id = k
    /\ count(entries) = Cardinality(KeysOf(entries))
    /\ \A i, j \in DOMAIN list(entries) :
          i # j => list(entries)[i].id # list(entries)[j].id
    /\ (ret.op = "update" /\ ~ret.thrown) => ret.value.id = ret.args[1]

C26_Witness ==
    /\ ret.op = "update"
    /\ ~ret.thrown
    /\ ret.args[2].id = "renamed"
    /\ ret.value.id = ret.args[1]
    /\ get(entries, ret.args[1]) = ret.value
    /\ count(entries) = 2

\* the ids in the order of list()
Ids(m) == [i \in DOMAIN list(m) |-> list(m)[i].id]

\* the id of the entry findOne returns
Winner(m, criteria) ==
    IF MatchingIn(m, criteria) = {} THEN Undefined
    ELSE m[Lowest(MatchingIn(m, criteria))].key

\* C27, one step: update leaves the ids of list() as they are, add puts the
\* new id at the end, remove takes the id out and leaves the others in their
\* order (so that remove and then add moves the id to the end), and after an
\* update the entry findOne returns is another one only if the updated entry
\* satisfies the criteria after the update and not before, or before and
\* not after.
C27_Step ==
    /\ ret'.op = "update" => Ids(entries') = Ids(entries)
    /\ (ret'.op = "add" /\ ~ret'.thrown)
          => Ids(entries') = Append(Ids(entries), ret'.args[1])
    /\ (ret'.op = "add" /\ ret'.thrown) => Ids(entries') = Ids(entries)
    /\ ret'.op = "remove"
          => Ids(entries') = SelectSeq(Ids(entries), LAMBDA k : k # ret'.args[1])
    /\ (ret.op = "remove" /\ ret'.op = "add" /\ ret'.args[1] = ret.args[1])
          => /\ ~ret'.thrown
             /\ Ids(entries')[Len(entries')] = ret.args[1]
    /\ (ret'.op = "update" /\ ~ret'.thrown)
          => \A criteria \in FindOptions :
                Winner(entries', criteria) # Winner(entries, criteria)
                   => Satisfies(get(entries', ret'.args[1]), criteria)
                        # Satisfies(get(entries, ret'.args[1]), criteria)

\* C27: the order of list() is the order of insertion and update keeps it.
C27_InsertionOrder ==
    [][C27_Step]_vars

C27_Witness ==
    /\ ret.op = "update"
    /\ ~ret.thrown
    /\ Len(entries) = 2
    /\ ret.args[1] = entries[1].key
    /\ entries[1].value.name = "llama3:8b"
    /\ entries[1].value.context = 8192
    /\ Winner(entries, [minContext |-> 8192]) = entries[1].key

\* no entry of the Map has the chat capability
NoChatEntry ==
    \A i \in DOMAIN entries : ~Satisfies(entries[i].value, [capability |-> "chat"])

\* C28: a request that names no model resolves only to an entry that has the
\* chat capability; with no such entry in the registry it fails with the
\* no-match error, whatever the other criteria are, and the engine is not
\* called.
C28_ImplicitRoutingRequiresChat ==
    (Routed /\ ~NamesModel)
        => /\ ~ret.thrown
                => /\ Len(ret.calls) = 1
                   /\ \E i \in DOMAIN entries :
                        /\ entries[i].key = ret.calls[1].model_id
                        /\ Satisfies(entries[i].value, [capability |-> "chat"])
           /\ NoChatEntry
                => /\ ret.thrown
                   /\ ret.value = <<"No suitable model found for the given constraints">>
                   /\ ret.calls = <<>>

C28_Witness ==
    /\ Routed
    /\ ret.args[1] = [prompt |-> "hello"]
    /\ Len(entries) = 2
    /\ NoChatEntry
    /\ ret.thrown
    /\ ret.value = <<"No suitable model found for the given constraints">>

\* C29: every entry has loaded = false; find({loaded: true}) is empty and
\* find({loaded: false}) is find({}), and what find returned for criteria
\* with loaded agrees with that.
C29_NothingIsLoaded ==
    /\ \A i \in DOMAIN entries : entries[i].value.loaded = FALSE
    /\ find(entries, [loaded |-> TRUE]) = <<>>
    /\ find(entries, [loaded |-> FALSE]) = find(entries, EmptyObject)
    /\ (ret.op \in {"add", "update"} /\ ~ret.thrown) => ret.value.loaded = FALSE
    /\ (FindReturned /\ "loaded" \in DOMAIN ret.args[1])
          => ret.value.results =
               IF ret.args[1].loaded THEN <<>>
               ELSE find(entries, Pick(ret.args[1], DOMAIN ret.args[1] \ {"loaded"}))

C29_Witness ==
    /\ FindReturned
    /\ ret.args[1] = [loaded |-> TRUE]
    /\ Len(entries) = 2
    /\ \E i \in DOMAIN entries : entries[i].value.context = 8192 /\ entries[i].value.name = "llama3:8b"
    /\ ret.value.results = <<>>
    /\ ret.value.first = UndefinedModel

====
